---- MODULE Spec2Model ----
(***************************************************************************)
(* A model of lib/gitkitclient.js, the Node.js client of Google Identity   *)
(* Toolkit: the token verifier with its certificate cache, the account     *)
(* operations and the out-of-band link builder.                            *)
(*                                                                         *)
(* JavaScript values are tagged records, so that values of different       *)
(* types can be compared: Null, Undefined, Str(<<...>>) (a string, as the  *)
(* sequence of its pieces), DateOf(t), Err(message), and plain objects.    *)
(* Every call of a public method is a slot of `calls`; the callbacks the   *)
(* library hands to request / authorize / the generated API run as one     *)
(* atomic action each, as the event loop runs them.                        *)
(***************************************************************************)
EXTENDS Integers, Sequences, FiniteSets, TLC

VARIABLES
    now,                \* the wall clock, (new Date()).getTime(), milliseconds
    audiences,          \* this.audiences
    widgetUrl,          \* this.widgetUrl
    certificateCache,   \* this.certificateCache
    certificateExpiry,  \* this.certificateExpiry
    calls               \* the calls of the client's methods, by slot

vars == <<now, audiences, widgetUrl, certificateCache, certificateExpiry, calls>>

(***************************************************************************)
(* Bounds of the model.                                                    *)
(***************************************************************************)
MaxCalls == 2       \* slots for overlapping calls
MaxTicks == 2       \* the clock stops after this many seconds
MaxPages == 3       \* page requests of one downloadAccount call

CallIds == 1..MaxCalls

(***************************************************************************)
(* JavaScript values.                                                      *)
(***************************************************************************)
Null == [tag |-> "null"]
Undefined == [tag |-> "undefined"]
Str(s) == [tag |-> "string", chars |-> s]
DateOf(t) == [tag |-> "Date", time |-> t]
Err(m) == [tag |-> "Error", message |-> m]
Num(n) == [tag |-> "number", n |-> n]
Array(items) == [tag |-> "array", items |-> items]
Buffer(base64) == [tag |-> "Buffer", base64 |-> base64]

\* an object without properties, and the properties an object literal has
\* only under a condition
NoFields == [k \in {} |-> Null]
FieldsIf(cond, fields) == IF cond THEN fields ELSE NoFields

\* JavaScript truthiness, for the values the model uses
Truthy(v) == v # Null /\ v # Undefined /\ v # Str(<<>>) /\ v # Num(0)

\* String.prototype.indexOf(x) != -1, on a string given as its pieces
Contains(s, x) == \E i \in 1..Len(s) : s[i] = x

\* string concatenation a + b; undefined prints as 'undefined'
ToChars(v) == IF v = Undefined THEN <<"undefined">> ELSE v.chars

\* obj[name], undefined when the object has no such property
Field(obj, name) == IF name \in DOMAIN obj THEN obj[name] ELSE Undefined

GITKIT_ISSUER == "https://identitytoolkit.google.com/"
RESET_PASSWORD_ACTION == "resetPassword"
CHANGE_EMAIL_ACTION == "changeEmail"
MsPerSecond == 1000
maxTokenExpiration == 86400 * 30

(***************************************************************************)
(* The constructor: this.audiences holds projectId, then clientId, each    *)
(* when given; the constructor throws when neither is.                     *)
(***************************************************************************)
GitkitClient(options) ==
    (IF options.projectId # Undefined THEN <<options.projectId>> ELSE <<>>)
    \o (IF options.clientId # Undefined THEN <<options.clientId>> ELSE <<>>)

Options ==
    [projectId : {Undefined, Str(<<"proj">>)},
     clientId : {Undefined, Str(<<"client">>)}]

WidgetUrls ==
    {<<"http://localhost:8000/widget">>,
     <<"http://localhost:8000/widget", "?", "lang=en">>}

(***************************************************************************)
(* A call slot.                                                            *)
(***************************************************************************)
IdleCall ==
    [op |-> "idle",         \* the public method called
     pc |-> "idle",         \* idle, fetching, authorizing, remote, done, threw
     arg |-> Undefined,     \* the method's arguments
     cb |-> <<>>,           \* the caller's callback: its invocations, in order
     certCb |-> <<>>,       \* what getGitkitCerts_ handed to its callback
     fetches |-> 0,         \* HTTP GETs of GITKIT_CERT_URL this call sent
     tried |-> <<>>,        \* audiences handed to verifySignedJwtWithCerts
     auths |-> 0,           \* authClient.authorize calls
     requests |-> <<>>,     \* requests sent to the remote API
     resource |-> Undefined,\* downloadAccount's resource object
     authErr |-> Undefined, \* the err authorize handed to its callback
     pages |-> <<>>,        \* the (err, resp) pairs of downloadAccount's pages
     oobCb |-> <<>>,        \* what _callOobApi handed to its callback
     resp |-> Undefined,    \* the last response the call's handler was given
     at |-> 0]              \* the clock as that handler ran

(***************************************************************************)
(* Identity tokens.  verifySignedJwtWithCerts is google-auth-library's: it *)
(* checks the signature against the certificate of the token's key id, the *)
(* expiry window, the issuer and last the audience, and throws an Error    *)
(* whose message names the first check that failed.                        *)
(***************************************************************************)
GoodToken(aud) ==
    [tag |-> "jwt", kid |-> "k1", iss |-> GITKIT_ISSUER, exp |-> MaxTicks + 5,
     aud |-> aud, email |-> "test@test.com"]

\* a good token for each audience, one signed by the newer key k2, one of
\* another issuer, one that expires as the clock leaves 0
NewKeyToken == [GoodToken(Str(<<"proj">>)) EXCEPT !.kid = "k2"]

Tokens ==
    {GoodToken(Str(<<a>>)) : a \in {"proj", "client", "other"}}
    \cup {NewKeyToken,
          [GoodToken(Str(<<"client">>)) EXCEPT !.iss = "https://evil/"],
          [GoodToken(Str(<<"other">>)) EXCEPT !.exp = 0]}

EmptyToken == Str(<<>>)

getPayload(token) == [tag |-> "payload", email |-> token.email, aud |-> token.aud,
                      iss |-> token.iss, exp |-> token.exp]

verifySignedJwtWithCerts(token, certs, requiredAudience, issuer, maxExpiry, t) ==
    LET nowSec == t \div MsPerSecond IN
    IF token.kid \notin certs.kids
      THEN [ok |-> FALSE, message |-> <<"No pem found for envelope">>]
    ELSE IF token.exp >= nowSec + maxExpiry
      THEN [ok |-> FALSE, message |-> <<"Expiration time too far in future">>]
    ELSE IF nowSec > token.exp
      THEN [ok |-> FALSE, message |-> <<"Token used too late">>]
    ELSE IF token.iss # issuer
      THEN [ok |-> FALSE, message |-> <<"Invalid issuer">>]
    ELSE IF token.aud # requiredAudience
      THEN [ok |-> FALSE,
            message |-> <<"Wrong recipient", ", payload audience != requiredAudience">>]
    ELSE [ok |-> TRUE, payload |-> getPayload(token)]

\* the loop without its inner catch: the first audience decides
audienceLoopFirstOnly(token, certs, auds, idx, t) ==
    IF idx > Len(auds)
      THEN [tried |-> <<>>, parsed |-> FALSE, threw |-> FALSE]
      ELSE LET r == verifySignedJwtWithCerts(token, certs, auds[idx], GITKIT_ISSUER,
                                             maxTokenExpiration, t)
           IN IF r.ok
                THEN [tried |-> <<auds[idx]>>, parsed |-> TRUE, threw |-> FALSE,
                      payload |-> r.payload]
                ELSE [tried |-> <<auds[idx]>>, parsed |-> FALSE, threw |-> TRUE,
                      message |-> r.message]

\* lines 80-90: the loop over this.audiences from index idx on.  The result:
\* the audiences tried, and either the parsed token, or the error thrown out of
\* the loop, or neither (every audience was the wrong recipient).
RECURSIVE audienceLoop(_, _, _, _, _)
audienceLoop(token, certs, auds, idx, t) ==
    IF idx > Len(auds)
      THEN [tried |-> <<>>, parsed |-> FALSE, threw |-> FALSE]
      ELSE LET r == verifySignedJwtWithCerts(token, certs, auds[idx], GITKIT_ISSUER,
                                             maxTokenExpiration, t)
           IN IF r.ok
                THEN [tried |-> <<auds[idx]>>, parsed |-> TRUE, threw |-> FALSE,
                      payload |-> r.payload]
              ELSE IF ~Contains(r.message, "Wrong recipient")
                THEN [tried |-> <<auds[idx]>>, parsed |-> FALSE, threw |-> TRUE,
                      message |-> r.message]
              ELSE LET rest == audienceLoop(token, certs, auds, idx + 1, t)
                   IN [rest EXCEPT !.tried = <<auds[idx]>> \o @]

\* lines 73-98: the function verifyGitkitToken hands to getGitkitCerts_.  The
\* result: the invocations of the caller's callback, in order, and the
\* audiences tried.  With no parsed token, line 92 reports the failure and
\* line 94 goes on to read parsedToken.getPayload(), a TypeError the outer
\* catch reports again.
verifyCallback(token, err, certs, auds, t) ==
    IF Truthy(err)
      THEN [cb |-> <<<<err, Null>>>>, tried |-> <<>>]
      ELSE LET r == audienceLoop(token, certs, auds, 1, t) IN
           IF r.threw
             THEN [cb |-> <<<<Str(<<"Unable to verify the ID Token: ">> \o r.message),
                             Null>>>>,
                   tried |-> r.tried]
           ELSE IF ~r.parsed
             THEN [cb |-> << <<Str(<<"Unable to verify the ID Token">>), Null>>,
                             <<Str(<<"Unable to verify the ID Token: ",
                                     "Cannot read property 'getPayload' of undefined">>),
                               Null>> >>,
                   tried |-> r.tried]
           ELSE [cb |-> <<<<Null, r.payload>>>>, tried |-> r.tried]

\* getGitkitCerts_ calls its callback with (err, certs): the caller of
\* getGitkitCerts_ itself records them, verifyGitkitToken runs lines 73-98.
deliverCerts(call, err, certs, auds, t) ==
    IF call.op = "getGitkitCerts_"
      THEN [call EXCEPT !.pc = "done", !.at = t,
                        !.certCb = Append(@, <<err, certs>>),
                        !.cb = Append(@, <<err, certs>>)]
      ELSE LET r == verifyCallback(call.arg, err, certs, auds, t) IN
           [call EXCEPT !.pc = "done", !.at = t,
                        !.certCb = Append(@, <<err, certs>>),
                        !.cb = @ \o r.cb,
                        !.tried = r.tried]

(***************************************************************************)
(* The certificate cache.                                                  *)
(***************************************************************************)
\* line 336 with <= for <
cacheFreshInclusive(expiry, t) == expiry # Null /\ t <= expiry.time

\* line 336
cacheFresh(expiry, t) == expiry # Null /\ t < expiry.time

\* lines 334-344, up to the HTTP request: a fresh cache is handed over at once
getGitkitCerts_(call) ==
    IF cacheFresh(certificateExpiry, now)
      THEN deliverCerts(call, Null, certificateCache, audiences, now)
      ELSE [call EXCEPT !.pc = "fetching", !.fetches = @ + 1]

\* A finished call stays in its slot until its caller has looked at it
\* (Return), and one call at a time is finished.  Return changes nothing of the
\* client, so every interleaving of the client's own steps remains.
Finished(call) == call.pc \in {"done", "threw"}

OneFinished(c) ==
    Finished(calls'[c]) => \A d \in CallIds \ {c} : ~Finished(calls[d])

\* a direct call of getGitkitCerts_
callGetGitkitCerts(c) ==
    /\ calls[c].pc = "idle"
    /\ calls' = [calls EXCEPT ![c] =
          getGitkitCerts_([IdleCall EXCEPT !.op = "getGitkitCerts_"])]
    /\ OneFinished(c)
    /\ UNCHANGED <<now, audiences, widgetUrl, certificateCache, certificateExpiry>>

\* lines 66-72: verifyGitkitToken(token, callback)
verifyGitkitToken(c, token) ==
    /\ calls[c].pc = "idle"
    /\ calls' = [calls EXCEPT ![c] =
          IF ~Truthy(token)
            THEN [IdleCall EXCEPT !.op = "verifyGitkitToken", !.arg = token,
                                  !.pc = "threw"]
            ELSE getGitkitCerts_([IdleCall EXCEPT !.op = "verifyGitkitToken",
                                                  !.arg = token])]
    /\ OneFinished(c)
    /\ UNCHANGED <<now, audiences, widgetUrl, certificateCache, certificateExpiry>>

(***************************************************************************)
(* The responses of the certificate URL.                                   *)
(***************************************************************************)
CertBodies == {[tag |-> "certs", kids |-> {"k1"}],
               [tag |-> "certs", kids |-> {"k1", "k2"}]}

ErrorBody == [tag |-> "errbody", error |-> [tag |-> "object", code |-> 503]]

\* the cache-control header, as the pieces of its text
CacheControls ==
    {Undefined, Str(<<>>), Str(<<"max-age=", "1">>),
     Str(<<"public, ", "max-age=", "0", "2", ", must-revalidate">>),
     Str(<<"max-age=">>), Str(<<"no-cache">>)}

Json(v) == [tag |-> "json", text |-> v]

CertResponses ==
    {[err |-> Err(<<"ECONNRESET">>), res |-> Undefined, body |-> Undefined]}
    \cup {[err |-> Null, res |-> [headers |-> Undefined], body |-> Json(ErrorBody)]}
    \cup {[err |-> Null, res |-> [headers |-> h], body |-> Json(b)] :
            h \in CacheControls, b \in CertBodies}

Digits == {"0", "1", "2", "3", "4", "5", "6", "7", "8", "9"}

DigitValue(d) ==
    CASE d = "0" -> 0 [] d = "1" -> 1 [] d = "2" -> 2 [] d = "3" -> 3 [] d = "4" -> 4
      [] d = "5" -> 5 [] d = "6" -> 6 [] d = "7" -> 7 [] d = "8" -> 8 [] d = "9" -> 9

\* the digits that follow position i of s: the group ([0-9]*)
RECURSIVE digitsFrom(_, _)
digitsFrom(s, i) ==
    IF i <= Len(s) /\ s[i] \in Digits THEN <<s[i]>> \o digitsFrom(s, i + 1) ELSE <<>>

\* the number a string of digits converts to; the empty string converts to 0
RECURSIVE toNumber(_)
toNumber(ds) ==
    IF ds = <<>> THEN 0 ELSE 10 * toNumber(SubSeq(ds, 1, Len(ds) - 1)) + DigitValue(ds[Len(ds)])

\* lines 369-370: new RegExp('max-age=([0-9]*)').exec(cacheControl): null without
\* a match, else the match and its group
regexExec(s) ==
    IF ~Contains(s, "max-age=")
      THEN Null
      ELSE LET i == CHOOSE k \in 1..Len(s) :
                      s[k] = "max-age=" /\ \A j \in 1..(k - 1) : s[j] # "max-age="
           IN [tag |-> "match", length |-> 2, group |-> digitsFrom(s, i + 1)]

\* cacheCerts_ without line 373's conversion to milliseconds
cacheCertsSeconds_(body, res, t) ==
    LET cacheControl == res.headers
        regexResult == IF Truthy(cacheControl) THEN regexExec(cacheControl.chars)
                       ELSE Undefined
    IN IF Truthy(cacheControl) /\ regexResult = Null
         THEN [threw |-> TRUE]
         ELSE LET cacheAge == IF Truthy(cacheControl) /\ regexResult.length = 2
                                THEN toNumber(regexResult.group)
                                ELSE -1
              IN [threw |-> FALSE,
                  certificateExpiry |-> IF cacheAge = -1 THEN Null
                                        ELSE DateOf(t + cacheAge),
                  certificateCache |-> body]

\* cacheCerts_ with a cache that keeps the certificates it already has: the
\* expiry of the later response next to the certificates of the earlier one
cacheCertsKeepFirst_(body, res, t) ==
    LET cacheControl == res.headers
        regexResult == IF Truthy(cacheControl) THEN regexExec(cacheControl.chars)
                       ELSE Undefined
    IN IF Truthy(cacheControl) /\ regexResult = Null
         THEN [threw |-> TRUE]
         ELSE LET cacheAge == IF Truthy(cacheControl) /\ regexResult.length = 2
                                THEN toNumber(regexResult.group) * MsPerSecond
                                ELSE -1
              IN [threw |-> FALSE,
                  certificateExpiry |-> IF cacheAge = -1 THEN Null
                                        ELSE DateOf(t + cacheAge),
                  certificateCache |-> IF certificateCache = Null THEN body
                                       ELSE certificateCache]

\* lines 364-381: cacheCerts_(body, res, callback) at time t: the new
\* certificateExpiry and certificateCache, or threw when regexResult is null
\* (regexResult.length is a TypeError, raised before anything is stored)
cacheCerts_(body, res, t) ==
    LET cacheControl == res.headers
        regexResult == IF Truthy(cacheControl) THEN regexExec(cacheControl.chars)
                       ELSE Undefined
    IN IF Truthy(cacheControl) /\ regexResult = Null
         THEN [threw |-> TRUE]
         ELSE LET cacheAge == IF Truthy(cacheControl) /\ regexResult.length = 2
                                THEN toNumber(regexResult.group) * MsPerSecond
                                ELSE -1
              IN [threw |-> FALSE,
                  certificateExpiry |-> IF cacheAge = -1 THEN Null
                                        ELSE DateOf(t + cacheAge),
                  certificateCache |-> body]

\* line 346: JSON.parse(body) throws a SyntaxError on undefined
jsonParse(body) ==
    IF body = Undefined THEN [threw |-> TRUE] ELSE [threw |-> FALSE, value |-> body.text]

\* lines 345-353: the function getGitkitCerts_ hands to request
requestCallback(c, resp) ==
    /\ calls[c].pc = "fetching"
    /\ LET parsed == jsonParse(resp.body) IN
       IF parsed.threw
         THEN /\ calls' = [calls EXCEPT ![c].pc = "threw", ![c].resp = resp,
                                         ![c].at = now]
              /\ UNCHANGED <<certificateCache, certificateExpiry>>
         ELSE LET body == parsed.value
                  error == IF Truthy(resp.err) THEN resp.err ELSE Field(body, "error")
              IN IF Truthy(error)
                   THEN /\ calls' = [calls EXCEPT ![c] =
                              deliverCerts([@ EXCEPT !.resp = resp], error, Null,
                                           audiences, now)]
                        /\ UNCHANGED <<certificateCache, certificateExpiry>>
                   ELSE LET stored == cacheCerts_(body, resp.res, now) IN
                        IF stored.threw
                          THEN /\ calls' = [calls EXCEPT ![c].pc = "threw",
                                                          ![c].resp = resp,
                                                          ![c].at = now]
                               /\ UNCHANGED <<certificateCache, certificateExpiry>>
                          ELSE /\ certificateExpiry' = stored.certificateExpiry
                               /\ certificateCache' = stored.certificateCache
                               /\ calls' = [calls EXCEPT ![c] =
                                     deliverCerts([@ EXCEPT !.resp = resp], Null,
                                                  body, audiences, now)]
    /\ OneFinished(c)
    /\ UNCHANGED <<now, audiences, widgetUrl>>

(***************************************************************************)
(* The clock, and a finished call leaving its slot.                        *)
(***************************************************************************)
Tick ==
    /\ now < MaxTicks * MsPerSecond
    /\ now' = now + MsPerSecond
    /\ UNCHANGED <<audiences, widgetUrl, certificateCache, certificateExpiry, calls>>

Return(c) ==
    /\ Finished(calls[c])
    /\ calls' = [calls EXCEPT ![c] = IdleCall]
    /\ UNCHANGED <<now, audiences, widgetUrl, certificateCache, certificateExpiry>>

(***************************************************************************)
(* The certificate cache under overlapping calls: getGitkitCerts_ called   *)
(* directly and from verifyGitkitToken, in every slot.  The token is one   *)
(* that the newer key signed, so that its fate shows which certificates    *)
(* the call was handed.                                                    *)
(***************************************************************************)
InitCerts ==
    /\ now = 0
    /\ \E o \in Options : audiences = GitkitClient(o) /\ Len(audiences) > 0
    /\ widgetUrl = <<"http://localhost:8000/widget">>
    /\ certificateCache = Null
    /\ certificateExpiry = Null
    /\ calls = [c \in CallIds |-> IdleCall]

NextCerts ==
    \/ \E c \in CallIds : callGetGitkitCerts(c)
    \/ \E c \in CallIds : verifyGitkitToken(c, NewKeyToken)
    \/ \E c \in CallIds, resp \in CertResponses : requestCallback(c, resp)
    \/ \E c \in CallIds : Return(c)
    \/ Tick

SpecCerts == InitCerts /\ [][NextCerts]_vars

(***************************************************************************)
(* The token verifier: one verifyGitkitToken call after another, with      *)
(* every token.                                                            *)
(***************************************************************************)
NextVerify ==
    \/ \E token \in Tokens \cup {EmptyToken} : verifyGitkitToken(1, token)
    \/ \E resp \in CertResponses : requestCallback(1, resp)
    \/ Return(1)
    \/ Tick

SpecVerify == InitCerts /\ [][NextVerify]_vars

(***************************************************************************)
(* The account operations.  authClient.authorize and the generated API     *)
(* (the methods of gitkit.relyingparty) are the environment: each calls   *)
(* its callback once, with an error or with a result.                      *)
(***************************************************************************)
AuthErrors == {Null, Err(<<"invalid_grant">>)}

ApiError == [tag |-> "Error", message |-> <<"INVALID_REQUEST">>, code |-> 400]

\* what the generated API hands to its callback: (err, resp)
ApiResponses ==
    [err : {Null, ApiError},
     resp : {Null, [tag |-> "object", kind |-> "identitytoolkit#response"]}]

Emails == {Str(<<"1234@example.com">>)}
LocalIds == {Str(<<"1234">>)}

Account(hash, salt) ==
    [localId |-> Str(<<"1234">>), email |-> Str(<<"1234@example.com">>),
     passwordHash |-> hash, salt |-> salt]

AccountLists ==
    {<<>>, <<Account(Buffer(<<"a", "/", "+", "Q">>), Buffer(<<"+", "/", "=">>))>>}

HashOptions ==
    {[hashAlgorithm |-> Str(<<"HMAC_SHA1">>), hashKey |-> Buffer(<<"k", "+", "/">>)],
     [hashAlgorithm |-> Undefined, hashKey |-> Undefined]}

RECURSIVE replaceAll(_, _, _)
\* String.prototype.replace(/from/g, to), on a string given as its characters
replaceAll(s, from, to) ==
    IF s = <<>> THEN <<>>
    ELSE <<IF Head(s) = from THEN to ELSE Head(s)>> \o replaceAll(Tail(s), from, to)

\* lines 299-301
toWebSafeBase64_(data) == Str(replaceAll(replaceAll(data.base64, "/", "_"), "+", "-"))

\* authClient.authorize(callback): the call now waits for the service account
authorize(call) == [call EXCEPT !.pc = "authorizing", !.auths = @ + 1]

\* gitkit.relyingparty.<api>({resource: resource, auth: ...}, callback)
sendRequest(call, api, resource) ==
    [call EXCEPT !.pc = "remote",
                 !.requests = Append(@, [api |-> api, resource |-> resource])]

\* the caller's callback called with (err, value): cb(err, value)
invoke(call, args) == [call EXCEPT !.cb = Append(@, args)]

done(call) == [call EXCEPT !.pc = "done"]

\* a step of slot c's call, which leaves the client's fields alone
Step(c, next) ==
    /\ calls' = [calls EXCEPT ![c] = next]
    /\ OneFinished(c)
    /\ UNCHANGED <<now, audiences, widgetUrl, certificateCache, certificateExpiry>>

\* slot c's call, of method op, waits for the callback that runs at pc
At(c, op, pc) == calls[c].op = op /\ calls[c].pc = pc

\* lines 107-109
getAccountByEmail(c, email) ==
    /\ At(c, "idle", "idle")
    /\ Step(c, authorize([IdleCall EXCEPT !.op = "getAccountInfo_",
                                        !.arg = [email |-> Array(<<email>>)]]))

\* lines 117-119
getAccountById(c, id) ==
    /\ At(c, "idle", "idle")
    /\ Step(c, authorize([IdleCall EXCEPT !.op = "getAccountInfo_",
                                        !.arg = [localId |-> Array(<<id>>)]]))

\* lines 312-319 with the return of line 315 left out
getAccountInfoAuthorizedNoReturn(call, err) ==
    LET told == IF Truthy(err) THEN invoke(call, <<err, Null>>) ELSE call
    IN sendRequest([told EXCEPT !.authErr = err], "getAccountInfo", call.arg)

\* lines 312-319: the function getAccountInfo_ hands to authorize
getAccountInfoAuthorized(call, err) ==
    IF Truthy(err)
      THEN done(invoke([call EXCEPT !.authErr = err], <<err, Null>>))
      ELSE sendRequest([call EXCEPT !.authErr = err], "getAccountInfo", call.arg)

\* lines 320-322, 198-200, 286-288: cb(err, resp)
relay(call, r) == done(invoke([call EXCEPT !.resp = r], <<r.err, r.resp>>))

getAccountInfoAuthorize(c, err) ==
    /\ At(c, "getAccountInfo_", "authorizing")
    /\ Step(c, getAccountInfoAuthorized(calls[c], err))

getAccountInfoCallback(c, r) ==
    /\ At(c, "getAccountInfo_", "remote")
    /\ Step(c, relay(calls[c], r))

\* lines 173-175
uploadAccount(c, accounts, hashOptions) ==
    /\ At(c, "idle", "idle")
    /\ Step(c, authorize([IdleCall EXCEPT !.op = "uploadAccount",
                          !.arg = [accounts |-> accounts, hashOptions |-> hashOptions]]))

\* lines 180-194: the resource uploadAccount sends
uploadResource(accounts, hashOptions) ==
    [users |-> Array([i \in 1..Len(accounts) |->
                        [accounts[i] EXCEPT
                           !.passwordHash = toWebSafeBase64_(@),
                           !.salt = toWebSafeBase64_(@)]])]
    @@ FieldsIf(Truthy(hashOptions.hashAlgorithm),
                [hashAlgorithm |-> hashOptions.hashAlgorithm])
    @@ FieldsIf(Truthy(hashOptions.hashKey),
                [signerKey |-> toWebSafeBase64_(hashOptions.hashKey)])

\* lines 175-197: the function uploadAccount hands to authorize
uploadAccountAuthorized(call, err) ==
    IF Truthy(err)
      THEN done(invoke([call EXCEPT !.authErr = err], <<err, Null>>))
      ELSE sendRequest([call EXCEPT !.authErr = err], "uploadAccount",
                       uploadResource(call.arg.accounts, call.arg.hashOptions))

uploadAccountAuthorize(c, err) ==
    /\ At(c, "uploadAccount", "authorizing")
    /\ Step(c, uploadAccountAuthorized(calls[c], err))

uploadAccountCallback(c, r) ==
    /\ At(c, "uploadAccount", "remote")
    /\ Step(c, relay(calls[c], r))

\* lines 276-278
deleteAccount(c, userId) ==
    /\ At(c, "idle", "idle")
    /\ Step(c, authorize([IdleCall EXCEPT !.op = "deleteAccount", !.arg = userId]))

\* lines 278-285: the function deleteAccount hands to authorize
deleteAccountAuthorized(call, err) ==
    IF Truthy(err)
      THEN done(invoke([call EXCEPT !.authErr = err], <<err, Null>>))
      ELSE sendRequest([call EXCEPT !.authErr = err], "deleteAccount",
                       [localId |-> call.arg])

deleteAccountAuthorize(c, err) ==
    /\ At(c, "deleteAccount", "authorizing")
    /\ Step(c, deleteAccountAuthorized(calls[c], err))

deleteAccountCallback(c, r) ==
    /\ At(c, "deleteAccount", "remote")
    /\ Step(c, relay(calls[c], r))

InitAccount ==
    /\ now = 0
    /\ \E o \in Options : audiences = GitkitClient(o) /\ Len(audiences) > 0
    /\ widgetUrl = <<"http://localhost:8000/widget">>
    /\ certificateCache = Null
    /\ certificateExpiry = Null
    /\ calls = [c \in CallIds |-> IdleCall]

NextAccount ==
    \/ \E c \in CallIds, email \in Emails : getAccountByEmail(c, email)
    \/ \E c \in CallIds, id \in LocalIds : getAccountById(c, id)
    \/ \E c \in CallIds, err \in AuthErrors : getAccountInfoAuthorize(c, err)
    \/ \E c \in CallIds, r \in ApiResponses : getAccountInfoCallback(c, r)
    \/ \E c \in CallIds, a \in AccountLists, h \in HashOptions : uploadAccount(c, a, h)
    \/ \E c \in CallIds, err \in AuthErrors : uploadAccountAuthorize(c, err)
    \/ \E c \in CallIds, r \in ApiResponses : uploadAccountCallback(c, r)
    \/ \E c \in CallIds, id \in LocalIds : deleteAccount(c, id)
    \/ \E c \in CallIds, err \in AuthErrors : deleteAccountAuthorize(c, err)
    \/ \E c \in CallIds, r \in ApiResponses : deleteAccountCallback(c, r)
    \/ \E c \in CallIds : Return(c)

SpecAccount == InitAccount /\ [][NextAccount]_vars

(***************************************************************************)
(* downloadAccount: the pages of the account list, one request after the   *)
(* other (async.doWhilst), each page's users handed to cb.                 *)
(***************************************************************************)
PaginationSizes == {Undefined, Num(0), Num(10)}

PageTokens == {Undefined, Str(<<"page-2">>), Str(<<"page-3">>)}

UserLists == {Undefined, Array(<<>>), Array(<<Str(<<"1234">>)>>)}

\* what downloadAccount's API hands to its callback: an error, or a page
PageResponses ==
    {[err |-> ApiError, resp |-> Null]}
    \cup {[err |-> Null, resp |-> [nextPageToken |-> t, users |-> u]] :
            t \in PageTokens, u \in UserLists}

\* what doWhilst hands to its final callback after the last page: nothing, or
\* null, by the version of async
NoErrors == {Undefined, Null}

\* lines 127-129
downloadAccount(c, paginationSize) ==
    /\ At(c, "idle", "idle")
    /\ Step(c, authorize([IdleCall EXCEPT !.op = "downloadAccount",
                                        !.arg = paginationSize]))

\* lines 129-139: the function downloadAccount hands to authorize
downloadAccountAuthorized(call, err) ==
    IF Truthy(err)
      THEN done(invoke([call EXCEPT !.authErr = err], <<err, Null>>))
      ELSE LET resource == FieldsIf(Truthy(call.arg), [maxResults |-> call.arg])
           IN sendRequest([call EXCEPT !.authErr = err, !.resource = resource],
                          "downloadAccount", resource)

\* lines 140-158 with line 145 storing only a token that is there
downloadAccountPageKeepToken(call, r, noErr) ==
    LET got == [call EXCEPT !.pages = Append(@, r), !.resp = r] IN
    IF Truthy(r.err)
      THEN done(invoke(got, <<r.err, Null>>))
      ELSE LET resource == IF Truthy(r.resp.nextPageToken)
                             THEN [k \in DOMAIN call.resource \cup {"nextPageToken"} |->
                                    IF k = "nextPageToken" THEN r.resp.nextPageToken
                                    ELSE call.resource[k]]
                             ELSE call.resource
               users == r.resp.users
               told == IF Truthy(users) /\ Len(users.items) > 0
                         THEN invoke(got, <<Null, users>>) ELSE got
           IN IF Truthy(Field(resource, "nextPageToken"))
                THEN sendRequest([told EXCEPT !.resource = resource],
                                 "downloadAccount", resource)
                ELSE done(invoke([told EXCEPT !.resource = resource], <<noErr, Null>>))

\* lines 140-158: the function downloadAccount hands to the API, then
\* doWhilst's test and, when it ends the loop, its final callback
downloadAccountPage(call, r, noErr) ==
    LET got == [call EXCEPT !.pages = Append(@, r), !.resp = r] IN
    IF Truthy(r.err)
      THEN done(invoke(got, <<r.err, Null>>))
      ELSE LET resource == [k \in DOMAIN call.resource \cup {"nextPageToken"} |->
                              IF k = "nextPageToken" THEN r.resp.nextPageToken
                              ELSE call.resource[k]]
               users == r.resp.users
               told == IF Truthy(users) /\ Len(users.items) > 0
                         THEN invoke(got, <<Null, users>>) ELSE got
           IN IF Truthy(resource.nextPageToken)
                THEN sendRequest([told EXCEPT !.resource = resource],
                                 "downloadAccount", resource)
                ELSE done(invoke([told EXCEPT !.resource = resource], <<noErr, Null>>))

downloadAccountAuthorize(c, err) ==
    /\ At(c, "downloadAccount", "authorizing")
    /\ Step(c, downloadAccountAuthorized(calls[c], err))

\* the service ends the list by its MaxPages-th page
downloadAccountCallback(c, r, noErr) ==
    /\ At(c, "downloadAccount", "remote")
    /\ IF Len(calls[c].pages) + 1 >= MaxPages /\ ~Truthy(r.err)
         THEN ~Truthy(r.resp.nextPageToken) ELSE TRUE
    /\ Step(c, downloadAccountPage(calls[c], r, noErr))

NextDownload ==
    \/ \E p \in PaginationSizes : downloadAccount(1, p)
    \/ \E err \in AuthErrors : downloadAccountAuthorize(1, err)
    \/ \E r \in PageResponses, noErr \in NoErrors : downloadAccountCallback(1, r, noErr)
    \/ Return(1)

SpecDownload == InitAccount /\ [][NextDownload]_vars

(***************************************************************************)
(* The out-of-band link builder: getOobResult, getEmailVerificationLink    *)
(* and _callOobApi.                                                        *)
(***************************************************************************)
OobActions ==
    {Undefined, Str(<<>>), Str(<<RESET_PASSWORD_ACTION>>), Str(<<CHANGE_EMAIL_ACTION>>),
     Str(<<"verifyEmail">>)}

\* the HTTP request parameters of the widget
OobParams ==
    [action : OobActions, email : {Str(<<"test@test.com">>)},
     oldEmail : {Str(<<"old@test.com">>)}, newEmail : {Str(<<"new@test.com">>)},
     challenge : {Str(<<"captcha-challenge">>)},
     response : {Str(<<"captcha-response">>)}]

UserIps == {Str(<<"1.1.1.1">>)}

GitkitTokens == {Undefined, Str(<<"id-token">>)}

VerifyEmails == {Undefined, Str(<<>>), Str(<<"test@test.com">>)}

\* what getOobConfirmationCode hands to its callback
OobResponses ==
    {[err |-> ApiError, resp |-> Null],
     [err |-> Null, resp |-> [oobCode |-> Str(<<"random-oob-code">>)]],
     [err |-> Null, resp |-> [oobCode |-> Str(<<"other-code">>)]],
     [err |-> Null, resp |-> [kind |-> Str(<<"identitytoolkit#response">>)]]}

\* JSON.stringify(v): a string in quotes; of an Error its own enumerable
\* properties, which leaves out the message
jsonStringify(v) ==
    IF v.tag = "string" THEN <<"\"">> \o v.chars \o <<"\"">>
    ELSE IF v.tag = "Error"
      THEN IF "code" \in DOMAIN v THEN <<"{\"code\":", "400", "}">> ELSE <<"{}">>
    ELSE IF v.tag = "boolean" THEN <<"true">>
    ELSE <<"null">>

\* lines 390-392
failureOobResponse(error_msg) ==
    [responseBody |-> Str(<<"{\"error\":">> \o jsonStringify(error_msg) \o <<"}">>)]

\* lines 421-423 with '?' whatever the widget URL holds
oobLinkQuestionMark(url, mode, oobCode) ==
    Str(url \o <<"?">> \o <<"mode=">> \o ToChars(mode) \o <<"&oobCode=">>
        \o ToChars(oobCode))

\* lines 421-423
oobLink(url, mode, oobCode) ==
    LET separator == IF Contains(url, "?") THEN "&" ELSE "?" IN
    Str(url \o <<separator>> \o <<"mode=">> \o ToChars(mode) \o <<"&oobCode=">>
        \o ToChars(oobCode))

\* the callback _callOobApi was given called with (err, resp): the callback of
\* getOobResult's caller, or lines 258-264 of getEmailVerificationLink
oobCallback(call, err, resp) ==
    LET told == [call EXCEPT !.oobCb = Append(@, <<err, resp>>)] IN
    IF call.op = "getOobResult"
      THEN invoke(told, <<err, resp>>)
    ELSE IF Truthy(err)
      THEN invoke(told, <<err, Null>>)
      ELSE invoke(told, <<Null, resp.oobLink>>)

\* lines 213-243: getOobResult(param, userIp, gitkitToken, callback)
getOobResultCall(param, userIp, gitkitToken) ==
    LET call == [IdleCall EXCEPT !.op = "getOobResult",
                   !.arg = [param |-> param, userIp |-> userIp,
                            gitkitToken |-> gitkitToken]]
        action == param.action
    IN IF Truthy(action)
         THEN IF action = Str(<<RESET_PASSWORD_ACTION>>)
                THEN authorize([call EXCEPT
                       !.arg = @ @@ [mode |-> action,
                                     request |->
                                       [email |-> param.email, userIp |-> userIp,
                                        challenge |-> param.challenge,
                                        captchaResp |-> param.response,
                                        requestType |-> Str(<<"PASSWORD_RESET">>)]]])
              ELSE IF action = Str(<<CHANGE_EMAIL_ACTION>>)
                THEN IF ~Truthy(gitkitToken)
                       THEN done(invoke(call,
                              <<failureOobResponse(Str(<<"login is required">>))>>))
                       ELSE authorize([call EXCEPT
                              !.arg = @ @@ [mode |-> action,
                                            request |->
                                              [email |-> param.oldEmail,
                                               newEmail |-> param.newEmail,
                                               userIp |-> userIp,
                                               idToken |-> gitkitToken,
                                               requestType |->
                                                 Str(<<"NEW_EMAIL_ACCEPT">>)]]])
              ELSE done(invoke(call,
                     <<failureOobResponse(Str(<<"unknown oob action">>))>>))
         ELSE done(invoke(call, <<failureOobResponse(Str(<<"missing oob action">>))>>))

getOobResult(c, param, userIp, gitkitToken) ==
    /\ At(c, "idle", "idle")
    /\ Step(c, getOobResultCall(param, userIp, gitkitToken))

\* lines 252-268: getEmailVerificationLink(email, callback)
getEmailVerificationLinkCall(email) ==
    LET call == [IdleCall EXCEPT !.op = "getEmailVerificationLink",
                                 !.arg = [email |-> email]]
    IN IF Truthy(email)
         THEN authorize([call EXCEPT
                !.arg = @ @@ [mode |-> Str(<<"verifyEmail">>),
                              request |-> [email |-> email,
                                           requestType |-> Str(<<"VERIFY_EMAIL">>)]]])
         ELSE done(invoke(call, <<Str(<<"missing email">>), Null>>))

getEmailVerificationLink(c, email) ==
    /\ At(c, "idle", "idle")
    /\ Step(c, getEmailVerificationLinkCall(email))

\* lines 407-415: the function _callOobApi hands to authorize
oobAuthorized(call, err) ==
    IF Truthy(err)
      THEN done(oobCallback([call EXCEPT !.authErr = err], err, failureOobResponse(err)))
      ELSE sendRequest([call EXCEPT !.authErr = err], "getOobConfirmationCode",
                       call.arg.request)

\* lines 415-437: the function _callOobApi hands to getOobConfirmationCode
oobCode(call, r) ==
    LET got == [call EXCEPT !.resp = r] IN
    IF Truthy(r.err)
      THEN done(oobCallback(got, r.err, failureOobResponse(r.err)))
      ELSE LET code == Field(r.resp, "oobCode")
               mode == call.arg.mode
               request == call.arg.request
               result ==
                 [email |-> request.email,
                  oobLink |-> oobLink(widgetUrl, mode, code),
                  oobCode |-> code,
                  responseBody |-> Str(<<"{\"success\":">>
                                       \o jsonStringify([tag |-> "boolean"])
                                       \o <<"}">>)]
                 @@ FieldsIf(mode = Str(<<RESET_PASSWORD_ACTION>>),
                             [action |-> Str(<<RESET_PASSWORD_ACTION>>)])
                 @@ FieldsIf(mode = Str(<<CHANGE_EMAIL_ACTION>>),
                             [newEmail |-> Field(request, "newEmail"),
                              action |-> Str(<<CHANGE_EMAIL_ACTION>>)])
           IN done(oobCallback(got, Null, result))

OobOps == {"getOobResult", "getEmailVerificationLink"}

oobAuthorize(c, err) ==
    /\ \E op \in OobOps : At(c, op, "authorizing")
    /\ Step(c, oobAuthorized(calls[c], err))

oobCodeCallback(c, r) ==
    /\ \E op \in OobOps : At(c, op, "remote")
    /\ Step(c, oobCode(calls[c], r))

InitOob ==
    /\ now = 0
    /\ \E o \in Options : audiences = GitkitClient(o) /\ Len(audiences) > 0
    /\ widgetUrl \in WidgetUrls
    /\ certificateCache = Null
    /\ certificateExpiry = Null
    /\ calls = [c \in CallIds |-> IdleCall]

NextOob ==
    \/ \E p \in OobParams, ip \in UserIps, t \in GitkitTokens : getOobResult(1, p, ip, t)
    \/ \E email \in VerifyEmails : getEmailVerificationLink(1, email)
    \/ \E err \in AuthErrors : oobAuthorize(1, err)
    \/ \E r \in OobResponses : oobCodeCallback(1, r)
    \/ Return(1)

SpecOob == InitOob /\ [][NextOob]_vars

(***************************************************************************)
(* Properties of the token verifier and the certificate cache.             *)
(***************************************************************************)
\* the token passes the signature, expiry and issuer checks with these
\* certificates at time t
TokenSound(token, certs, t) ==
    /\ token.kid \in certs.kids
    /\ token.iss = GITKIT_ISSUER
    /\ t \div MsPerSecond <= token.exp
    /\ token.exp < t \div MsPerSecond + maxTokenExpiration

\* a verifyGitkitToken call that was handed certificates
VerifiedWithCerts(call) ==
    /\ call.op = "verifyGitkitToken"
    /\ call.pc = "done"
    /\ Len(call.certCb) = 1
    /\ call.certCb[1][1] = Null

\* C1: with certificates at hand, verifyGitkitToken hands (null, payload) to
\* the callback exactly when the token is sound and its audience is one of
\* the configured ones; a wrong recipient for the first audience leads on to
\* the second; and no other token ever gets a payload that is not null.
C1_PayloadIffSomeAudience ==
    \A c \in CallIds :
      LET call == calls[c] IN
      VerifiedWithCerts(call) =>
        LET certs == call.certCb[1][2]
            sound == TokenSound(call.arg, certs, call.at)
            some == sound /\ \E i \in 1..Len(audiences) : call.arg.aud = audiences[i]
        IN /\ some <=> \E k \in 1..Len(call.cb) :
                         call.cb[k] = <<Null, getPayload(call.arg)>>
           /\ \A k \in 1..Len(call.cb) :
                 call.cb[k][2] # Null => some /\ call.cb[k][1] = Null
           /\ (sound /\ Len(audiences) >= 2 /\ call.arg.aud # audiences[1])
                 => Len(call.tried) >= 2 /\ call.tried[2] = audiences[2]

\* C1's case: the first audience is the wrong recipient and the second verifies
C1_Witness ==
    \E c \in CallIds :
      /\ VerifiedWithCerts(calls[c])
      /\ Len(audiences) = 2
      /\ calls[c].arg.aud = audiences[2]
      /\ calls[c].tried = audiences
      /\ calls[c].cb = <<<<Null, getPayload(calls[c].arg)>>>>

\* a step in which slot c's call of getGitkitCerts_ begins (directly, or from
\* verifyGitkitToken past its argument check)
CertsCallBegins(c) ==
    /\ calls[c].pc = "idle"
    /\ calls'[c].op \in {"getGitkitCerts_", "verifyGitkitToken"}
    /\ calls'[c].pc # "threw"

\* C2: a call of getGitkitCerts_ made while certificateExpiry is set and the
\* clock is strictly before it sends no HTTP request and hands over exactly the
\* cached certificates; a call made with certificateExpiry null, or with the
\* clock at or past it, sends one HTTP request; no call sends a second.
C2_LazyRefresh ==
    [][\A c \in CallIds :
         /\ CertsCallBegins(c) =>
              IF certificateExpiry # Null /\ now < certificateExpiry.time
                THEN /\ calls'[c].fetches = 0
                     /\ calls'[c].certCb = <<<<Null, certificateCache>>>>
                ELSE /\ calls'[c].fetches = 1
                     /\ calls'[c].pc = "fetching"
                     /\ calls'[c].certCb = <<>>
         /\ calls'[c].fetches <= 1
         /\ calls'[c].fetches >= calls[c].fetches \/ calls'[c].pc = "idle"]_vars

\* C2's case: a call answered from the cache, at a clock short of the expiry
C2_Witness ==
    \E c \in CallIds :
      /\ calls[c].op = "getGitkitCerts_"
      /\ calls[c].pc = "done"
      /\ calls[c].fetches = 0
      /\ certificateCache # Null
      /\ calls[c].certCb = <<<<Null, certificateCache>>>>
      /\ now > 0

\* the response of a fetch that succeeded: no transport error, a body without
\* an error field
FetchSucceeded(resp) ==
    /\ resp # Undefined
    /\ resp.err = Null
    /\ resp.body # Undefined
    /\ resp.body.text.tag = "certs"

\* a step in which slot c's call is given the response of its fetch
ResponseProcessed(c) ==
    /\ calls[c].pc = "fetching"
    /\ calls'[c].pc # "fetching"

\* the headers of the model that carry max-age=N, with their N
MaxAgeOf(h) ==
    IF h = Str(<<"max-age=", "1">>) THEN 1
    ELSE IF h = Str(<<"public, ", "max-age=", "0", "2", ", must-revalidate">>) THEN 2
    ELSE -1

FetchFailed(resp) ==
    /\ resp # Undefined
    /\ \/ Truthy(resp.err) /\ resp.body = Undefined
       \/ resp.body # Undefined /\ resp.body.text.tag = "errbody"

UpstreamError(resp) == IF Truthy(resp.err) THEN resp.err ELSE resp.body.text.error

\* C9: when the fetch fails, by a transport error without a body or by a body
\* with an error field, getGitkitCerts_ hands (error, null) to its callback,
\* verifyGitkitToken hands the same to the caller's callback, once, and tries
\* no audience, and the cache and its expiry stay as they were.
C9_FetchErrorPassedThrough ==
    [][\A c \in CallIds :
         (ResponseProcessed(c) /\ FetchFailed(calls'[c].resp)) =>
           LET error == UpstreamError(calls'[c].resp) IN
           /\ calls'[c].certCb = <<<<error, Null>>>>
           /\ calls'[c].cb = <<<<error, Null>>>>
           /\ calls'[c].tried = <<>>
           /\ certificateCache' = certificateCache
           /\ certificateExpiry' = certificateExpiry]_vars

\* C10: a verifyGitkitToken call with a non-empty token whose certificate
\* lookup has completed has invoked the caller's callback exactly once.
C10_CallbackOnce ==
    \A c \in CallIds :
      (/\ calls[c].op = "verifyGitkitToken"
       /\ Truthy(calls[c].arg)
       /\ calls[c].certCb # <<>>) => Len(calls[c].cb) = 1

(***************************************************************************)
(* Properties of the account operations.                                   *)
(***************************************************************************)
AccountOps == {"getAccountInfo_", "uploadAccount", "deleteAccount"}

\* the API each method calls
ApiOf(op) == IF op = "getAccountInfo_" THEN "getAccountInfo" ELSE op

\* C4: in getAccountByEmail, getAccountById, uploadAccount and deleteAccount
\* the authorization comes first.  While it is pending nothing was sent and
\* the callback is silent; when it fails nothing is ever sent and the callback
\* gets (err, null), once; when it succeeds one request is sent, and the
\* callback gets the very (err, resp) of the remote API, once.
C4_AuthorizeThenRelay ==
    \A c \in CallIds :
      LET call == calls[c] IN
      call.op \in AccountOps =>
        /\ call.auths = 1
        /\ call.pc \in {"authorizing", "remote", "done"}
        /\ call.pc = "authorizing" =>
              call.authErr = Undefined /\ call.requests = <<>> /\ call.cb = <<>>
        /\ call.pc = "remote" =>
              /\ ~Truthy(call.authErr)
              /\ Len(call.requests) = 1
              /\ call.requests[1].api = ApiOf(call.op)
              /\ call.cb = <<>>
        /\ (call.pc = "done" /\ Truthy(call.authErr)) =>
              call.requests = <<>> /\ call.cb = <<<<call.authErr, Null>>>>
        /\ (call.pc = "done" /\ ~Truthy(call.authErr)) =>
              /\ Len(call.requests) = 1
              /\ call.requests[1].api = ApiOf(call.op)
              /\ call.resp \in ApiResponses
              /\ call.cb = <<<<call.resp.err, call.resp.resp>>>>

\* C4's cases: a refused authorization in one call, a relayed answer in another
C4_Witness ==
    /\ \E c \in CallIds :
         /\ calls[c].op = "uploadAccount"
         /\ calls[c].pc = "done"
         /\ Len(calls[c].requests) = 1
         /\ calls[c].cb = <<<<ApiError, Null>>>>
    /\ \E c \in CallIds :
         /\ calls[c].op = "getAccountInfo_"
         /\ calls[c].pc = "authorizing"

(***************************************************************************)
(* Properties of downloadAccount.                                          *)
(***************************************************************************)
\* a page that ends the download: an error, or no nextPageToken
LastPage(r) == IF Truthy(r.err) THEN TRUE ELSE ~Truthy(r.resp.nextPageToken)

\* the users of a page, when it has any
HasUsers(r) ==
    /\ ~Truthy(r.err)
    /\ r.resp.users # Undefined
    /\ r.resp.users.items # <<>>

\* what cb is to have been given after the pages ps: each page's users, then
\* the closing invocation after the last page
RECURSIVE PagesToCallback(_)
PagesToCallback(ps) ==
    IF ps = <<>> THEN <<>>
    ELSE LET r == Head(ps) IN
         (IF HasUsers(r) THEN <<r.resp.users>> ELSE <<>>)
         \o (IF LastPage(r) THEN <<Null>> ELSE PagesToCallback(Tail(ps)))

\* C5: after a successful authorization, cb gets (null, users) for each page
\* with users, in the order of the pages; each request after the first carries
\* the nextPageToken of the response before it; after the first page without a
\* nextPageToken, or the first error, cb is called once with null as its second
\* argument, and then no request is sent and cb is not called again.
C5_PagesInOrderThenOnce ==
    \A c \in CallIds :
      LET call == calls[c]
          n == Len(call.pages)
      IN (call.op = "downloadAccount" /\ call.authErr = Null) =>
        /\ [k \in 1..Len(call.cb) |-> call.cb[k][2]] = PagesToCallback(call.pages)
        /\ \A k \in 1..Len(call.cb) :
              call.cb[k][2] # Null => call.cb[k][1] = Null
        /\ \A k \in 1..n : LastPage(call.pages[k]) => k = n /\ call.pc = "done"
        /\ call.pc = "done" => n >= 1 /\ LastPage(call.pages[n])
        /\ Len(call.requests) = IF call.pc = "done" THEN n ELSE n + 1
        /\ "nextPageToken" \notin DOMAIN call.requests[1].resource
        /\ \A k \in 2..Len(call.requests) :
              call.requests[k].resource.nextPageToken
                = call.pages[k - 1].resp.nextPageToken
        /\ Cardinality({k \in 1..Len(call.cb) : call.cb[k][2] = Null})
              = IF call.pc = "done" THEN 1 ELSE 0

\* C5's case: three pages, users on the first and the last, then the end
C5_Witness ==
    \E c \in CallIds :
      /\ calls[c].op = "downloadAccount"
      /\ calls[c].pc = "done"
      /\ Len(calls[c].requests) = 3
      /\ Len(calls[c].cb) = 3
      /\ calls[c].cb[1][2] # Null
      /\ calls[c].cb[2][2] # Null
      /\ calls[c].cb[3][2] = Null

(***************************************************************************)
(* Properties of the out-of-band link builder.                             *)
(***************************************************************************)
\* the text of a string given as its pieces
RECURSIVE Join(_)
Join(s) == IF s = <<>> THEN "" ELSE Head(s) \o Join(Tail(s))

Text(v) == Join(v.chars)

\* a finished out-of-band call whose remote reply carried a one-time code
GotOobCode(call) ==
    /\ call.op \in OobOps
    /\ call.pc = "done"
    /\ call.resp # Undefined
    /\ call.resp.err = Null
    /\ "oobCode" \in DOMAIN call.resp.resp

\* the email the request is about
RequestEmail(call) ==
    IF call.op = "getEmailVerificationLink" THEN call.arg.email
    ELSE IF call.arg.mode = Str(<<CHANGE_EMAIL_ACTION>>) THEN call.arg.param.oldEmail
    ELSE call.arg.param.email

\* C6: with a one-time code c for a request of mode m, _callOobApi hands
\* (null, result) to its callback, where result.oobLink is the widget URL, then
\* '?' (or '&' when the URL holds a '?'), then 'mode=' m '&oobCode=' c;
\* result.oobCode is c, result.email the email of the request,
\* result.responseBody '{"success":true}', and result.action the action for
\* resetPassword and changeEmail, with result.newEmail for changeEmail.
C6_OobLinkComposed ==
    \A c \in CallIds :
      LET call == calls[c] IN
      GotOobCode(call) =>
        LET code == call.resp.resp.oobCode
            mode == call.arg.mode
            sep == IF \E i \in 1..Len(widgetUrl) : widgetUrl[i] = "?" THEN "&" ELSE "?"
        IN /\ Len(call.oobCb) = 1
           /\ call.oobCb[1][1] = Null
           /\ LET result == call.oobCb[1][2] IN
              /\ Text(result.oobLink)
                   = Join(widgetUrl) \o sep \o "mode=" \o Text(mode)
                       \o "&oobCode=" \o Text(code)
              /\ result.oobCode = code
              /\ result.email = RequestEmail(call)
              /\ Text(result.responseBody) = "{\"success\":true}"
              /\ mode = Str(<<RESET_PASSWORD_ACTION>>) =>
                    Field(result, "action") = Str(<<RESET_PASSWORD_ACTION>>)
              /\ mode = Str(<<CHANGE_EMAIL_ACTION>>) =>
                    /\ Field(result, "action") = Str(<<CHANGE_EMAIL_ACTION>>)
                    /\ Field(result, "newEmail") = call.arg.param.newEmail
           /\ call.op = "getOobResult" => call.cb = call.oobCb

\* C6's case: a changeEmail link on a widget URL that holds a '?'
C6_Witness ==
    \E c \in CallIds :
      /\ GotOobCode(calls[c])
      /\ calls[c].op = "getOobResult"
      /\ Len(calls[c].cb) = 1
      /\ Text(calls[c].cb[1][2].oobLink)
           = "http://localhost:8000/widget?lang=en&mode=changeEmail&oobCode=random-oob-code"

\* C7: getEmailVerificationLink with an email, an authorization and a reply
\* with the code c hands (null, link) to the callback, where for a widget URL
\* without '?' link is the URL, then '?mode=resetPassword&oobCode=', then c;
\* the request sent has requestType 'VERIFY_EMAIL'.
C7_VerificationLinkIsResetPassword ==
    \A c \in CallIds :
      LET call == calls[c] IN
      (/\ GotOobCode(call)
       /\ call.op = "getEmailVerificationLink"
       /\ ~\E i \in 1..Len(widgetUrl) : widgetUrl[i] = "?") =>
        /\ Len(call.cb) = 1
        /\ call.cb[1][1] = Null
        /\ call.requests[1].resource.requestType = Str(<<"VERIFY_EMAIL">>)
        /\ Text(call.cb[1][2])
             = Join(widgetUrl) \o "?mode=resetPassword&oobCode="
                 \o Text(call.resp.resp.oobCode)

\* the ways getOobResult fails before it asks for anything
OobInvalid(call) ==
    LET action == call.arg.param.action IN
    \/ ~Truthy(action)
    \/ action \notin {Str(<<RESET_PASSWORD_ACTION>>), Str(<<CHANGE_EMAIL_ACTION>>)}
    \/ action = Str(<<CHANGE_EMAIL_ACTION>>) /\ ~Truthy(call.arg.gitkitToken)

\* the message of each failure
OobFailureMessage(call) ==
    LET action == call.arg.param.action IN
    IF ~Truthy(action) THEN "missing oob action"
    ELSE IF action \notin {Str(<<RESET_PASSWORD_ACTION>>), Str(<<CHANGE_EMAIL_ACTION>>)}
      THEN "unknown oob action"
    ELSE IF action = Str(<<CHANGE_EMAIL_ACTION>>) /\ ~Truthy(call.arg.gitkitToken)
      THEN "login is required"
    ELSE IF Truthy(call.authErr) THEN Join(call.authErr.message)
    ELSE Join(call.resp.err.message)

\* C8: on each failure of getOobResult (no action, an unknown action,
\* changeEmail without a login token, a refused authorization, a remote error)
\* the callback is called once, with an error that is not null and, second, an
\* envelope whose responseBody is the JSON text {"error": message}; the first
\* three failures ask for no authorization and send nothing.
C8_UniformFailureEnvelope ==
    \A c \in CallIds :
      LET call == calls[c] IN
      (/\ call.op = "getOobResult"
       /\ call.pc = "done"
       /\ ~(call.resp # Undefined /\ call.resp.err = Null)) =>
        /\ OobInvalid(call) => call.auths = 0 /\ call.requests = <<>>
        /\ Len(call.cb) = 1
        /\ Len(call.cb[1]) = 2
        /\ call.cb[1][1] # Null
        /\ call.cb[1][1] # Undefined
        /\ "responseBody" \in DOMAIN call.cb[1][2]
        /\ Text(call.cb[1][2].responseBody)
             = "{\"error\":\"" \o OobFailureMessage(call) \o "\"}"

(***************************************************************************)
(* The certificate cache under overlapping calls.                          *)
(***************************************************************************)
\* a step in which slot c's fetch response is stored by cacheCerts_
ResponseStored(c) ==
    /\ ResponseProcessed(c)
    /\ calls'[c].pc = "done"
    /\ FetchSucceeded(calls'[c].resp)

\* the expiry a response with cache-control header h leaves when stored at t
ExpiryFrom(h, t) ==
    IF h = Undefined \/ h = Str(<<>>) THEN Null
    ELSE IF h = Str(<<"max-age=">>) THEN DateOf(t)
    ELSE DateOf(t + 1000 * MaxAgeOf(h))

\* certificateCache and certificateExpiry are the pair the response of slot c
\* leaves
PairFrom(c) ==
    /\ certificateCache' = calls'[c].resp.body.text
    /\ certificateExpiry' = ExpiryFrom(calls'[c].resp.res.headers, now)

\* what getGitkitCerts_ hands to the callback of slot c in this step: the
\* cache as the call found it, or the certificates of the call's own fetch,
\* or an error without certificates
HandedOver(c) ==
    LET e == calls'[c].certCb[1] IN
    /\ Len(calls'[c].certCb) = 1
    /\ IF calls'[c].fetches = 0
         THEN e = <<Null, certificateCache>>
         ELSE IF FetchSucceeded(calls'[c].resp)
           THEN e = <<Null, calls'[c].resp.body.text>>
           ELSE Truthy(e[1]) /\ e[2] = Null
    /\ ~(e[1] = Null /\ e[2] = Null)

\* C11: under every interleaving of overlapping verifyGitkitToken and
\* getGitkitCerts_ calls, a step changes certificateCache or certificateExpiry
\* only by storing one fetch response, and then both come from that response,
\* so the pair in every state is the pair of the response stored last;
\* certificateExpiry is set only next to a certificateCache that is set; and
\* a callback of getGitkitCerts_ gets the certificates of the call's own
\* fetch or of the cache, never null certificates with a null error.
C11_CachePairAndHandOver ==
    /\ [](certificateExpiry # Null => certificateCache # Null)
    /\ [][/\ \A c \in CallIds : ResponseStored(c) => PairFrom(c)
          /\ (\A c \in CallIds : ~ResponseStored(c)) =>
               /\ certificateCache' = certificateCache
               /\ certificateExpiry' = certificateExpiry
          /\ \A c \in CallIds :
               (calls'[c].certCb # calls[c].certCb /\ calls'[c].certCb # <<>>)
                 => HandedOver(c)]_vars

\* C11's case: two fetches overlapped, the response of one has been stored
\* and handed to its call while the other is still in flight, and the cache
\* and its expiry are the pair of the stored response
C11_Witness ==
    \E c \in CallIds : \E d \in CallIds \ {c} :
      /\ calls[c].pc = "done"
      /\ calls[c].fetches = 1
      /\ FetchSucceeded(calls[c].resp)
      /\ calls[c].certCb = <<<<Null, certificateCache>>>>
      /\ certificateCache = calls[c].resp.body.text
      /\ certificateExpiry = DateOf(calls[c].at + 1000)
      /\ calls[c].at > 0
      /\ calls[d].pc = "fetching"
====
